---- MODULE Spec2Model ----
(***************************************************************************)
(* VoteSmartt: the event lifecycle, the ballot box and event creation,     *)
(* modelled from flask_app/controllers and flask_app/models.               *)
(*                                                                         *)
(* The relational store is three tables (event, option, vote).  Every      *)
(* query_db call is one store operation; a request handler is a sequence   *)
(* of such operations, and handlers of different requests interleave       *)
(* between them.  The clock (get_now_pacific) advances on its own.         *)
(***************************************************************************)
EXTENDS Integers, Sequences, FiniteSets, TLC

(***************************************************************************)
(* Bounds of the model.                                                    *)
(***************************************************************************)
MaxTime == 3
MaxEvents == 2
MaxVotes == 2
MaxCands == 2
NumProcs == 2
NumVoters == 1
TicksPerYear == 50

(***************************************************************************)
(* Program constants.                                                      *)
(***************************************************************************)
MaxTitleLen == 45
MaxDescLen == 255
MaxDescLenCreate == 1000
MinNameLen == 2
MaxNameLen == 45
SanityYears == 10

(***************************************************************************)
(* Users.  The user table is seeded and never changes: user 1 has          *)
(* isAdmin = 1, users 2 .. NumVoters + 1 are voters.                       *)
(***************************************************************************)
AdminId == 1
Users == 1..(NumVoters + 1)
is_admin(u) == u = AdminId
canCastVote(u) == ~is_admin(u)

(***************************************************************************)
(* Time.  An instant is a positive integer; NoTime is Python's None (and a *)
(* NULL or zero DATETIME).  A submitted time field is the empty string     *)
(* (EmptyField), an unparseable string (BadField) or the datetime-local    *)
(* text of an instant.                                                     *)
(***************************************************************************)
NoTime == 0
EmptyField == 0
BadField == -1
Instants == 1..MaxTime
TimeFields == {EmptyField, BadField} \cup Instants

parse_datetime(value) == IF value \in Instants THEN value ELSE NoTime

\* normalize_datetime_local followed by the DATETIME column: the text of an
\* instant is stored as that instant, anything else as a zero date, which
\* reads back as no time.
StoredTime(val) == IF val \in Instants THEN val ELSE NoTime

YearOf(t) == t \div TicksPerYear

(***************************************************************************)
(* compute_status, with the clock reading passed in.                       *)
(***************************************************************************)
\* Mutant: the end boundary compared with > instead of >=.
compute_status_EndExclusive(start_raw, end_raw, clock) ==
    LET start_dt == parse_datetime(start_raw)
        end_dt == parse_datetime(end_raw)
    IN  IF start_dt = NoTime /\ end_dt = NoTime THEN "Unknown"
        ELSE IF start_dt # NoTime /\ end_dt # NoTime THEN
                 IF clock < start_dt THEN "Waiting"
                 ELSE IF clock > end_dt THEN "Closed"
                 ELSE "Open"
        ELSE IF start_dt # NoTime /\ end_dt = NoTime THEN
                 IF clock < start_dt THEN "Waiting" ELSE "Open"
        ELSE IF end_dt # NoTime /\ start_dt = NoTime THEN
                 IF clock > end_dt THEN "Closed" ELSE "Open"
        ELSE "Unknown"

\* Mutant: the end comparison inverted (Closed while the end is still ahead).
compute_status_EndInverted(start_raw, end_raw, clock) ==
    LET start_dt == parse_datetime(start_raw)
        end_dt == parse_datetime(end_raw)
    IN  IF start_dt = NoTime /\ end_dt = NoTime THEN "Unknown"
        ELSE IF start_dt # NoTime /\ end_dt # NoTime THEN
                 IF clock < start_dt THEN "Waiting"
                 ELSE IF clock <= end_dt THEN "Closed"
                 ELSE "Open"
        ELSE IF start_dt # NoTime /\ end_dt = NoTime THEN
                 IF clock < start_dt THEN "Waiting" ELSE "Open"
        ELSE IF end_dt # NoTime /\ start_dt = NoTime THEN
                 IF clock <= end_dt THEN "Closed" ELSE "Open"
        ELSE "Unknown"

compute_status(start_raw, end_raw, clock) ==
    LET start_dt == parse_datetime(start_raw)
        end_dt == parse_datetime(end_raw)
    IN  IF start_dt = NoTime /\ end_dt = NoTime THEN "Unknown"
        ELSE IF start_dt # NoTime /\ end_dt # NoTime THEN
                 IF clock < start_dt THEN "Waiting"
                 ELSE IF clock >= end_dt THEN "Closed"
                 ELSE "Open"
        ELSE IF start_dt # NoTime /\ end_dt = NoTime THEN
                 IF clock < start_dt THEN "Waiting" ELSE "Open"
        ELSE IF end_dt # NoTime /\ start_dt = NoTime THEN
                 IF clock >= end_dt THEN "Closed" ELSE "Open"
        ELSE "Unknown"

isEditable(ev, clock) == compute_status(ev.start_time, ev.end_time, clock) = "Open"

(***************************************************************************)
(* Strings.  Titles, descriptions and candidate names are drawn from small *)
(* sets; StrLen, Strip and Lower give what len(), str.strip() and          *)
(* str.lower() return on them.                                             *)
(***************************************************************************)
TitleForms == {"", "Title", "TitleOver45"}
DescForms == {"", "Desc", "DescOver255"}
CandForms == {"", "  ", "Al", "al", "Bo"}

StrLen(s) ==
    CASE s = "" -> 0
      [] s = "  " -> 2
      [] s = "Al" -> 2
      [] s = "al" -> 2
      [] s = "Bo" -> 2
      [] s = "Title" -> 5
      [] s = "Desc" -> 4
      [] s = "TitleOver45" -> 46
      [] s = "DescOver255" -> 256
      [] OTHER -> 1

Strip(s) == IF s = "  " THEN "" ELSE s

Lower(s) == IF s = "Al" THEN "al" ELSE s

validate_event_title(title) ==
    IF title = "" THEN "Please enter an event name"
    ELSE IF StrLen(Strip(title)) = 0 THEN "Please enter an event name"
    ELSE IF StrLen(Strip(title)) > MaxTitleLen THEN "Event name is too long"
    ELSE "None"

validate_event_description(description) ==
    IF description = "" THEN "None"
    ELSE IF StrLen(Strip(description)) > MaxDescLen THEN "Event description is too long"
    ELSE "None"

validate_name(name) ==
    IF name = "" THEN "Candidate name is required"
    ELSE IF StrLen(Strip(name)) < MinNameLen THEN "Candidate name must be at least 2 characters"
    ELSE IF StrLen(Strip(name)) > MaxNameLen THEN "Candidate name must be less than 45 characters"
    ELSE "None"

validate_candidate_name(candidate_name) == validate_name(candidate_name)

RECURSIVE SeqFilterStrip(_)
\* [c.strip() for c in candidate if (c or '').strip()]
SeqFilterStrip(cs) ==
    IF cs = << >> THEN << >>
    ELSE IF Strip(Head(cs)) = "" THEN SeqFilterStrip(Tail(cs))
    ELSE << Strip(Head(cs)) >> \o SeqFilterStrip(Tail(cs))

SeqRange(s) == { s[i] : i \in 1..Len(s) }

\* First candidate whose validator returns an error, else "None".
FirstNameError(cs) ==
    IF \E i \in 1..Len(cs) : validate_candidate_name(cs[i]) # "None"
    THEN LET i == CHOOSE i \in 1..Len(cs) :
                    /\ validate_candidate_name(cs[i]) # "None"
                    /\ \A j \in 1..(i - 1) : validate_candidate_name(cs[j]) = "None"
         IN  validate_candidate_name(cs[i])
    ELSE "None"

\* Mutant: the duplicate scan compares the names as typed.
HasDuplicate_CaseSensitive(cs) ==
    \E i, j \in 1..Len(cs) : i < j /\ cs[i] = cs[j]

\* The case-insensitive duplicate scan: true when some entry repeats an earlier one.
HasDuplicate(cs) ==
    \E i, j \in 1..Len(cs) : i < j /\ Lower(cs[i]) = Lower(cs[j])

RECURSIVE OrderedUnique(_, _)
\* Case-sensitive de-duplication preserving order.
OrderedUnique(cs, seen) ==
    IF cs = << >> THEN << >>
    ELSE IF Head(cs) \in seen THEN OrderedUnique(Tail(cs), seen)
    ELSE << Head(cs) >> \o OrderedUnique(Tail(cs), seen \cup {Head(cs)})

CandSeqs == UNION { [1..n -> CandForms] : n \in 0..MaxCands }


(***************************************************************************)
(* The store and the requests in flight.                                   *)
(***************************************************************************)
MaxOptions == MaxEvents * MaxCands
EventIds == 1..MaxEvents
OptionIds == 1..MaxOptions
Procs == 1..NumProcs

VARIABLES
    now,            \* get_now_pacific()
    event,          \* rows of table event
    option,         \* rows of table `option`
    vote,           \* table vote: number of rows per (vote_user_id, vote_option_id)
    lastEventId,    \* AUTO_INCREMENT of event
    lastOptionId,   \* AUTO_INCREMENT of `option`
    req,            \* per request slot: the handler running there and its locals
    shown,          \* what the last single-event page was rendered with
    password,       \* column password of table user, per user_id
    password_reset_token    \* rows of table password_reset_token

vars == << now, event, option, vote, lastEventId, lastOptionId, req, shown,
           password, password_reset_token >>

NoEvent == [event_id |-> 0, title |-> "", description |-> "",
            start_time |-> NoTime, end_time |-> NoTime, created_byFK |-> 0]

Idle == [kind |-> "idle", pc |-> "idle", user |-> 0, event_id |-> 0,
         option_id |-> 0, event |-> NoEvent, existing |-> FALSE,
         cands |-> << >>, result |-> "None"]

NoView == [event_id |-> 0, event_status |-> "None", is_open |-> FALSE, at |-> 0]

Done(kind, result) ==
    [Idle EXCEPT !.kind = kind, !.pc = "done", !.result = result]

\* A request is accepted by the first free slot.
CanStart(p) == req[p] = Idle /\ \A q \in 1..(p - 1) : req[q] # Idle

RECURSIVE SumOver(_, _)
SumOver(f, S) ==
    IF S = {} THEN 0
    ELSE LET x == CHOOSE x \in S : TRUE IN f[x] + SumOver(f, S \ {x})

VoteKeys == Users \X OptionIds
TotalVotes == SumOver(vote, VoteKeys)

\* Events.getOne
getOne(event_id) ==
    IF \E e \in event : e.event_id = event_id
    THEN CHOOSE e \in event : e.event_id = event_id
    ELSE NoEvent

\* Option.getByEventId, as the set of option ids
getByEventId(event_id) ==
    { o.option_id : o \in { x \in option : x.option_event_id = event_id } }

OptionExists(option_id) == \E o \in option : o.option_id = option_id

\* The (user, option) keys of the vote rows joined to options of the event.
RowsOfUserInEvent(user_id, event_id) ==
    { k \in VoteKeys : k[1] = user_id /\ k[2] \in getByEventId(event_id) /\ vote[k] > 0 }

BallotCount(user_id, event_id) ==
    SumOver(vote, { k \in VoteKeys : k[1] = user_id /\ k[2] \in getByEventId(event_id) })

\* Vote.getByUserAndEvent, as "a row was found"
getByUserAndEvent(user_id, event_id) == RowsOfUserInEvent(user_id, event_id) # {}

isCreatedBy(ev, user_id) == ev.created_byFK = user_id

\* bcrypt: a hash verifies exactly the password it was generated from.
generate_password_hash(pw) == [bcrypt |-> pw]
check_password_hash(pw_hash, pw) == pw_hash = [bcrypt |-> pw]

\* hashlib.sha256(raw_token.encode()).hexdigest()
sha256(raw_token) == [sha256 |-> raw_token]

\* The seeded users all have the password "Old#Pass1".
SeededPasswords == [u \in Users |-> generate_password_hash("Old#Pass1")]

Init ==
    /\ now = 1
    /\ event = {}
    /\ option = {}
    /\ vote = [k \in VoteKeys |-> 0]
    /\ lastEventId = 0
    /\ lastOptionId = 0
    /\ req = [p \in Procs |-> Idle]
    /\ shown = NoView
    /\ password = SeededPasswords
    /\ password_reset_token = {}

(***************************************************************************)
(* The clock.                                                              *)
(***************************************************************************)
Tick ==
    /\ now < MaxTime
    /\ now' = now + 1
    /\ UNCHANGED << event, option, vote, lastEventId, lastOptionId, req, shown,
                   password, password_reset_token >>

(***************************************************************************)
(* createEventRoute: the validation chain, then Events.createEvent.        *)
(***************************************************************************)
\* Mutant: the duplicate scan of the candidates is left out.
CreateError_NoDuplicateScan(title, description, start_time_local, end_time_local, candidate, clock) ==
    LET valid_candidates == SeqFilterStrip(candidate)
        e1 == validate_event_title(title)
        start_dt == parse_datetime(start_time_local)
        end_dt == parse_datetime(end_time_local)
        dates ==
            IF start_dt = NoTime \/ end_dt = NoTime THEN "Invalid date format"
            ELSE IF start_dt < clock THEN "Start time cannot be in the past"
            ELSE IF e1 # "None" THEN e1
            ELSE IF end_dt <= start_dt THEN "End time cannot be before or equal to start time"
            ELSE IF YearOf(start_dt) > YearOf(clock) + SanityYears
                    \/ YearOf(end_dt) > YearOf(clock) + SanityYears
                 THEN "Event dates cannot be more than 10 years in the future"
            ELSE "None"
        \* if not error_message and description: ... elif ... elif ... elif ...
        e2 == IF e1 = "None" /\ description # ""
              THEN validate_event_description(description)
              ELSE IF start_time_local = EmptyField THEN "Please select a start date"
              ELSE IF end_time_local = EmptyField THEN "Please select an end date"
              ELSE dates
        e3 == IF e2 = "None" /\ description # "" /\ StrLen(description) > MaxDescLenCreate
              THEN "Event description is too long (maximum 1000 characters)"
              ELSE e2
    IN  IF e3 # "None" THEN e3
        ELSE IF Len(valid_candidates) < 2 THEN "Please add at least 2 candidates"
        ELSE IF FirstNameError(valid_candidates) # "None" THEN FirstNameError(valid_candidates)
        ELSE "None"

\* The first error of the validation chain, "None" when the form passes.
CreateError(title, description, start_time_local, end_time_local, candidate, clock) ==
    LET valid_candidates == SeqFilterStrip(candidate)
        e1 == validate_event_title(title)
        start_dt == parse_datetime(start_time_local)
        end_dt == parse_datetime(end_time_local)
        dates ==
            IF start_dt = NoTime \/ end_dt = NoTime THEN "Invalid date format"
            ELSE IF start_dt < clock THEN "Start time cannot be in the past"
            ELSE IF e1 # "None" THEN e1
            ELSE IF end_dt <= start_dt THEN "End time cannot be before or equal to start time"
            ELSE IF YearOf(start_dt) > YearOf(clock) + SanityYears
                    \/ YearOf(end_dt) > YearOf(clock) + SanityYears
                 THEN "Event dates cannot be more than 10 years in the future"
            ELSE "None"
        \* if not error_message and description: ... elif ... elif ... elif ...
        e2 == IF e1 = "None" /\ description # ""
              THEN validate_event_description(description)
              ELSE IF start_time_local = EmptyField THEN "Please select a start date"
              ELSE IF end_time_local = EmptyField THEN "Please select an end date"
              ELSE dates
        e3 == IF e2 = "None" /\ description # "" /\ StrLen(description) > MaxDescLenCreate
              THEN "Event description is too long (maximum 1000 characters)"
              ELSE e2
    IN  IF e3 # "None" THEN e3
        ELSE IF Len(valid_candidates) < 2 THEN "Please add at least 2 candidates"
        ELSE IF FirstNameError(valid_candidates) # "None" THEN FirstNameError(valid_candidates)
        ELSE IF HasDuplicate(valid_candidates) THEN "Duplicate candidate"
        ELSE "None"

createEventRoute(p, u, title, description, start_time_local, end_time_local, candidate) ==
    /\ CanStart(p)
    /\ lastEventId < MaxEvents
    /\ LET err == CreateError(Strip(title), Strip(description), start_time_local,
                              end_time_local, candidate, now)
           storable == start_time_local \in Instants /\ end_time_local \in Instants
       IN  IF err # "None"
           THEN /\ req' = [req EXCEPT ![p] = Done("create", "ValidationError")]
                /\ UNCHANGED << event, lastEventId >>
           ELSE \* a DATETIME given '' or garbage is refused in strict SQL mode
                \* and stored as a zero date otherwise
                \E accepted \in IF storable THEN {TRUE} ELSE BOOLEAN :
                    IF accepted
                    THEN /\ lastEventId' = lastEventId + 1
                         /\ event' = event \cup
                                {[event_id |-> lastEventId + 1,
                                  title |-> Strip(title),
                                  description |-> Strip(description),
                                  start_time |-> StoredTime(start_time_local),
                                  end_time |-> StoredTime(end_time_local),
                                  created_byFK |-> u]}
                         /\ req' = [req EXCEPT ![p] =
                                [Idle EXCEPT !.kind = "create", !.pc = "options",
                                             !.user = u,
                                             !.event_id = lastEventId + 1,
                                             !.cands = OrderedUnique(SeqFilterStrip(candidate), {})]]
                    ELSE /\ req' = [req EXCEPT ![p] = Done("create", "NotCreated")]
                         /\ UNCHANGED << event, lastEventId >>
    /\ UNCHANGED << now, option, vote, lastOptionId, shown,
                   password, password_reset_token >>

\* One Option.create of the candidate loop; after the last one the handler
\* redirects to the event list.
createOption(p) ==
    /\ req[p].kind = "create" /\ req[p].pc = "options"
    /\ lastOptionId' = lastOptionId + 1
    /\ option' = option \cup
            {[option_id |-> lastOptionId + 1,
              option_text |-> Head(req[p].cands),
              option_event_id |-> req[p].event_id]}
    /\ IF Tail(req[p].cands) = << >>
       THEN req' = [req EXCEPT ![p] = Done("create", "Created")]
       ELSE req' = [req EXCEPT ![p].cands = Tail(@)]
    /\ UNCHANGED << now, event, vote, lastEventId, shown,
                   password, password_reset_token >>

(***************************************************************************)
(* cast_vote (and its alias change_vote).  Steps: require_voter and        *)
(* Events.getOne; the status and creator checks; Option.getByEventId;      *)
(* Vote.getByUserAndEvent; Vote.changeVote or Vote.castVote.               *)
(***************************************************************************)
\* require_voter: TRUE when the request is to be blocked.
require_voter(u) == ~canCastVote(u)

cast_vote(p, u, event_id, option_id) ==
    /\ CanStart(p)
    /\ IF require_voter(u)
       THEN req' = [req EXCEPT ![p] = Done("cast", "Forbidden")]
       ELSE IF getOne(event_id) = NoEvent
       THEN req' = [req EXCEPT ![p] = Done("cast", "NotFound")]
       ELSE req' = [req EXCEPT ![p] =
                [Idle EXCEPT !.kind = "cast", !.pc = "status", !.user = u,
                             !.event_id = event_id, !.option_id = option_id,
                             !.event = getOne(event_id)]]
    /\ UNCHANGED << now, event, option, vote, lastEventId, lastOptionId, shown,
                   password, password_reset_token >>

\* Mutant: only a Closed event is refused (a Waiting or Unknown one passes).
castCheckStatus_OnlyClosedRefused(p) ==
    /\ req[p].kind = "cast" /\ req[p].pc = "status"
    /\ LET r == req[p] IN
       IF compute_status(r.event.start_time, r.event.end_time, now) = "Closed"
       THEN req' = [req EXCEPT ![p] = Done("cast", "EventNotOpen")]
       ELSE IF isCreatedBy(r.event, r.user)
       THEN req' = [req EXCEPT ![p] = Done("cast", "Forbidden")]
       ELSE req' = [req EXCEPT ![p].pc = "validate", ![p].event = NoEvent]
    /\ UNCHANGED << now, event, option, vote, lastEventId, lastOptionId, shown,
                   password, password_reset_token >>

\* 5b and 6: the status read at the current clock, then the creator check.
castCheckStatus(p) ==
    /\ req[p].kind = "cast" /\ req[p].pc = "status"
    /\ LET r == req[p] IN
       IF compute_status(r.event.start_time, r.event.end_time, now) # "Open"
       THEN req' = [req EXCEPT ![p] = Done("cast", "EventNotOpen")]
       ELSE IF isCreatedBy(r.event, r.user)
       THEN req' = [req EXCEPT ![p] = Done("cast", "Forbidden")]
       ELSE req' = [req EXCEPT ![p].pc = "validate", ![p].event = NoEvent]
    /\ UNCHANGED << now, event, option, vote, lastEventId, lastOptionId, shown,
                   password, password_reset_token >>

\* 7: the option lookup returned rows.
castValidateOption(p) ==
    /\ req[p].kind = "cast" /\ req[p].pc = "validate"
    /\ LET r == req[p] IN
       IF r.option_id \notin getByEventId(r.event_id)
       THEN req' = [req EXCEPT ![p] = Done("cast", "InvalidOption")]
       ELSE req' = [req EXCEPT ![p].pc = "lookup"]
    /\ UNCHANGED << now, event, option, vote, lastEventId, lastOptionId, shown,
                   password, password_reset_token >>

\* 7: the option lookup raised; "except Exception: pass" lets the request continue.
castValidateRaises(p) ==
    /\ req[p].kind = "cast" /\ req[p].pc = "validate"
    /\ req' = [req EXCEPT ![p].pc = "lookup"]
    /\ UNCHANGED << now, event, option, vote, lastEventId, lastOptionId, shown,
                   password, password_reset_token >>

\* 8: existing = Vote.getByUserAndEvent(...)
castLookup(p) ==
    /\ req[p].kind = "cast" /\ req[p].pc = "lookup"
    /\ req' = [req EXCEPT ![p].pc = "write",
                          ![p].existing = getByUserAndEvent(req[p].user, req[p].event_id)]
    /\ UNCHANGED << now, event, option, vote, lastEventId, lastOptionId, shown,
                   password, password_reset_token >>

\* Vote.changeVote: every vote row of the user joined to an option of the
\* event gets the new option; refused by the foreign key when it does not exist.
changeVote(user_id, event_id, new_option_id) ==
    LET rows == RowsOfUserInEvent(user_id, event_id)
        moved == SumOver(vote, rows)
    IN  IF ~OptionExists(new_option_id) THEN vote
        ELSE [k \in VoteKeys |->
                IF k = << user_id, new_option_id >>
                THEN (IF k \in rows THEN 0 ELSE vote[k]) + moved
                ELSE IF k \in rows THEN 0
                ELSE vote[k]]

\* Vote.castVote: one INSERT; refused by the foreign key when the option does not exist.
castVote(vote_user_id, vote_option_id) ==
    IF ~OptionExists(vote_option_id) THEN vote
    ELSE [vote EXCEPT ![<< vote_user_id, vote_option_id >>] = @ + 1]

\* 9: update when a row was found, insert otherwise.
castWrite(p) ==
    /\ req[p].kind = "cast" /\ req[p].pc = "write"
    /\ LET r == req[p] IN
       IF r.existing
       THEN /\ vote' = changeVote(r.user, r.event_id, r.option_id)
            /\ req' = [req EXCEPT ![p] = Done("cast", "Updated")]
       ELSE /\ TotalVotes < MaxVotes
            /\ vote' = castVote(r.user, r.option_id)
            /\ req' = [req EXCEPT ![p] = Done("cast", "Created")]
    /\ UNCHANGED << now, event, option, lastEventId, lastOptionId, shown,
                   password, password_reset_token >>

(***************************************************************************)
(* delete_vote.  Steps: require_voter and Events.getOne; the creator and   *)
(* status checks; Vote.deleteVote.                                         *)
(***************************************************************************)
delete_vote(p, u, event_id) ==
    /\ CanStart(p)
    /\ IF require_voter(u)
       THEN req' = [req EXCEPT ![p] = Done("retract", "Forbidden")]
       ELSE IF getOne(event_id) = NoEvent
       THEN req' = [req EXCEPT ![p] = Done("retract", "NotFound")]
       ELSE req' = [req EXCEPT ![p] =
                [Idle EXCEPT !.kind = "retract", !.pc = "status", !.user = u,
                             !.event_id = event_id, !.event = getOne(event_id)]]
    /\ UNCHANGED << now, event, option, vote, lastEventId, lastOptionId, shown,
                   password, password_reset_token >>

\* 6 and 7: the creator check, then the status read at the current clock.
retractCheckStatus(p) ==
    /\ req[p].kind = "retract" /\ req[p].pc = "status"
    /\ LET r == req[p] IN
       IF isCreatedBy(r.event, r.user)
       THEN req' = [req EXCEPT ![p] = Done("retract", "Forbidden")]
       ELSE IF compute_status(r.event.start_time, r.event.end_time, now) # "Open"
       THEN req' = [req EXCEPT ![p] = Done("retract", "EventNotOpen")]
       ELSE req' = [req EXCEPT ![p].pc = "write", ![p].event = NoEvent]
    /\ UNCHANGED << now, event, option, vote, lastEventId, lastOptionId, shown,
                   password, password_reset_token >>

\* Vote.deleteVote: every vote row of the user joined to an option of the event.
deleteVote(user_id, event_id) ==
    [k \in VoteKeys |-> IF k \in RowsOfUserInEvent(user_id, event_id) THEN 0 ELSE vote[k]]

\* 8: query_db returns True for a DELETE whatever the number of rows.
retractWrite(p) ==
    /\ req[p].kind = "retract" /\ req[p].pc = "write"
    /\ vote' = deleteVote(req[p].user, req[p].event_id)
    /\ req' = [req EXCEPT ![p] = Done("retract", "Deleted")]
    /\ UNCHANGED << now, event, option, lastEventId, lastOptionId, shown,
                   password, password_reset_token >>

\* The response is sent and the slot is free again.
respond(p) ==
    /\ req[p].pc = "done"
    /\ req' = [req EXCEPT ![p] = Idle]
    /\ UNCHANGED << now, event, option, vote, lastEventId, lastOptionId, shown,
                   password, password_reset_token >>

(***************************************************************************)
(* Vote.tallyVotesForEvent: the options of the event LEFT JOINed to their  *)
(* vote rows, grouped by option, ORDER BY votes DESC, option_text ASC.     *)
(***************************************************************************)
\* COUNT(v.vote_id) of the group of one option.
CountVotes(option_id) == SumOver(vote, { k \in VoteKeys : k[2] = option_id })

\* Mutant: an inner join, which has no group for an option without a vote.
TallyRows_InnerJoin(event_id) ==
    { [option_id |-> o.option_id, option_text |-> o.option_text,
       votes |-> CountVotes(o.option_id)] :
      o \in { x \in option : /\ x.option_event_id = event_id
                              /\ CountVotes(x.option_id) > 0 } }

\* The groups: one per option row with option_event_id = event_id.
TallyRows(event_id) ==
    { [option_id |-> o.option_id, option_text |-> o.option_text,
       votes |-> CountVotes(o.option_id)] :
      o \in { x \in option : x.option_event_id = event_id } }

\* Position of a text under the case-insensitive collation of the
\* option_text column (utf8mb4 default).
CollationRank(text) ==
    IF Lower(text) = "al" THEN 2 ELSE IF Lower(text) = "Bo" THEN 3
    ELSE IF text = "  " THEN 1 ELSE 0

\* ORDER BY votes DESC, option_text ASC: r1 may come before r2.
OrderBy(r1, r2) ==
    \/ r1.votes > r2.votes
    \/ r1.votes = r2.votes
         /\ CollationRank(r1.option_text) <= CollationRank(r2.option_text)

\* The result sets the statement may return: every arrangement of the groups
\* that respects the ORDER BY (rows with equal keys come in either order).
TallyOrders(event_id) ==
    LET R == TallyRows(event_id)
        n == Cardinality(R)
    IN  { rows \in [1..n -> R] :
            /\ \A i, j \in 1..n : i # j => rows[i] # rows[j]
            /\ \A i, j \in 1..n : i < j => OrderBy(rows[i], rows[j]) }

(***************************************************************************)
(* Result: the rows of the tally with their percentage, the winners and    *)
(* the total.  A percentage is kept in tenths of a percent (1000 is        *)
(* 100.0), which is what round(x, 1) leaves of x.                          *)
(***************************************************************************)
RECURSIVE SumVotes(_)
SumVotes(rows) ==
    IF rows = << >> THEN 0 ELSE Head(rows).votes + SumVotes(Tail(rows))

\* round(votes / total * 100, 1) for total > 0: the nearest tenth, a value
\* half-way between two tenths going to the even one.
RoundPercent(votes, total) ==
    LET q == (votes * 1000) \div total
        r == (votes * 1000) % total
    IN  IF 2 * r < total THEN q
        ELSE IF 2 * r > total THEN q + 1
        ELSE IF q % 2 = 0 THEN q ELSE q + 1

\* Mutant: the percentage is taken of all the votes in the vote table.
calculate_OfAllVotes(rows) ==
    [i \in 1..Len(rows) |->
        [option_id |-> rows[i].option_id, option_text |-> rows[i].option_text,
         votes |-> rows[i].votes,
         percentage |-> IF TotalVotes # 0
                        THEN RoundPercent(rows[i].votes, TotalVotes) ELSE 0]]

\* Result.calculate, applied to the rows Vote.tallyVotesForEvent returned
calculate(rows) ==
    LET total == IF rows # << >> THEN SumVotes(rows) ELSE 0
    IN  [i \in 1..Len(rows) |->
            [option_id |-> rows[i].option_id,
             option_text |-> rows[i].option_text,
             votes |-> rows[i].votes,
             percentage |-> IF total # 0
                            THEN RoundPercent(rows[i].votes, total) ELSE 0]]

\* Mutant: options with no vote tie at zero and all win.
getWinners_ZeroWins(rows) ==
    IF rows = << >> THEN << >>
    ELSE LET max_votes == rows[1].votes
         IN  SelectSeq(rows, LAMBDA r : r.votes = max_votes)

\* Result.getWinners
getWinners(rows) ==
    IF rows = << >> THEN << >>
    ELSE LET max_votes == rows[1].votes
         IN  IF max_votes = 0 THEN << >>
             ELSE SelectSeq(rows, LAMBDA r : r.votes = max_votes)

\* Result.getWinnerOptionIds
getWinnerOptionIds(rows) ==
    [i \in 1..Len(getWinners(rows)) |-> getWinners(rows)[i].option_id]

\* Result.getTotalVotes
getTotalVotes(rows) == IF rows = << >> THEN 0 ELSE SumVotes(rows)

(***************************************************************************)
(* singleEvent: the status, the tallies, the winners and the total the     *)
(* event page is rendered with.                                            *)
(***************************************************************************)
singleEvent(event_id) ==
    /\ getOne(event_id) # NoEvent
    /\ LET ev == getOne(event_id)
           status == compute_status(ev.start_time, ev.end_time, now)
           is_open == (status = "Open")
       IN  \E tally \in TallyOrders(event_id) :
            LET rows == calculate(tally)
            IN  shown' = [event_id |-> event_id, event_status |-> status,
                          is_open |-> is_open, at |-> now,
                          tallies |-> IF ~is_open THEN rows ELSE << >>,
                          winner_option_ids |->
                              IF ~is_open THEN getWinnerOptionIds(rows) ELSE << >>,
                          total_votes |->
                              IF ~is_open THEN getTotalVotes(rows) ELSE 0]
    /\ UNCHANGED << now, event, option, vote, lastEventId, lastOptionId, req,
                   password, password_reset_token >>

(***************************************************************************)
(* Spec: the ballot box.  Events are created through createEventRoute from *)
(* the forms of BallotForms; cast, change and retract requests of every    *)
(* user interleave with them and with the clock.                           *)
(***************************************************************************)
BallotForms ==
    { [title |-> "Title", description |-> "", start_time |-> 2, end_time |-> 3,
       candidates |-> << "Al", "Bo" >>],
      [title |-> "Title", description |-> "Desc", start_time |-> EmptyField,
       end_time |-> EmptyField, candidates |-> << "Al", "Bo" >>] }

Next ==
    \/ Tick
    \/ \E p \in Procs :
         /\ CanStart(p) /\ lastEventId < MaxEvents
         /\ \E u \in Users, f \in BallotForms :
            createEventRoute(p, u, f.title, f.description, f.start_time,
                             f.end_time, f.candidates)
    \/ \E p \in Procs : createOption(p)
    \/ \E p \in Procs, u \in Users, event_id \in EventIds, option_id \in OptionIds :
            cast_vote(p, u, event_id, option_id)
    \/ \E p \in Procs : castCheckStatus(p)
    \/ \E p \in Procs : castValidateOption(p)
    \/ \E p \in Procs : castValidateRaises(p)
    \/ \E p \in Procs : castLookup(p)
    \/ \E p \in Procs : castWrite(p)
    \/ \E p \in Procs, u \in Users, event_id \in EventIds : delete_vote(p, u, event_id)
    \/ \E p \in Procs : retractCheckStatus(p)
    \/ \E p \in Procs : retractWrite(p)
    \/ \E p \in Procs : respond(p)

Spec == Init /\ [][Next]_vars

(***************************************************************************)
(* SpecSeq: the same requests, one at a time (a request starts only when   *)
(* no other is in flight); the clock still advances between their steps.   *)
(***************************************************************************)
Quiet == \A q \in Procs : req[q] = Idle

NextSeq ==
    \/ Tick
    \/ \E p \in Procs :
         /\ Quiet /\ lastEventId < MaxEvents
         /\ \E u \in Users, f \in BallotForms :
            createEventRoute(p, u, f.title, f.description, f.start_time,
                             f.end_time, f.candidates)
    \/ \E p \in Procs : createOption(p)
    \/ \E p \in Procs, u \in Users, event_id \in EventIds, option_id \in OptionIds :
            Quiet /\ cast_vote(p, u, event_id, option_id)
    \/ \E p \in Procs : castCheckStatus(p)
    \/ \E p \in Procs : castValidateOption(p)
    \/ \E p \in Procs : castValidateRaises(p)
    \/ \E p \in Procs : castLookup(p)
    \/ \E p \in Procs : castWrite(p)
    \/ \E p \in Procs, u \in Users, event_id \in EventIds :
            Quiet /\ delete_vote(p, u, event_id)
    \/ \E p \in Procs : retractCheckStatus(p)
    \/ \E p \in Procs : retractWrite(p)
    \/ \E p \in Procs : respond(p)

SpecSeq == Init /\ [][NextSeq]_vars

(***************************************************************************)
(* SpecCreate: event creation alone, one request at a time, over every     *)
(* combination of the submitted fields.                                    *)
(***************************************************************************)
NextCreate ==
    \/ Tick
    \/ \E p \in Procs :
         /\ CanStart(p) /\ lastEventId < MaxEvents
         /\ \A q \in Procs : req[q] = Idle
         /\ \E u \in Users, title \in TitleForms, description \in DescForms,
               start_time_local \in TimeFields, end_time_local \in TimeFields,
               candidate \in CandSeqs :
            createEventRoute(p, u, title, description, start_time_local,
                             end_time_local, candidate)
    \/ \E p \in Procs : createOption(p)
    \/ \E p \in Procs : respond(p)

SpecCreate == Init /\ [][NextCreate]_vars

(***************************************************************************)
(* SpecStatus: compute_status over every stored start and end (each        *)
(* present or absent) and every clock reading.                             *)
(***************************************************************************)
StoredTimes == {NoTime} \cup Instants

InitStatus ==
    /\ now \in Instants
    /\ \E s \in StoredTimes, e \in StoredTimes, u \in Users :
            event = {[event_id |-> 1, title |-> "Title", description |-> "Desc",
                      start_time |-> s, end_time |-> e, created_byFK |-> u]}
    /\ option = {[option_id |-> 1, option_text |-> "Al", option_event_id |-> 1],
                 [option_id |-> 2, option_text |-> "Bo", option_event_id |-> 1]}
    /\ vote = [k \in VoteKeys |-> 0]
    /\ lastEventId = 1
    /\ lastOptionId = 2
    /\ req = [p \in Procs |-> Idle]
    /\ shown = NoView
    /\ password = SeededPasswords
    /\ password_reset_token = {}

NextStatus ==
    \/ Tick
    \/ \E event_id \in EventIds : singleEvent(event_id)

SpecStatus == InitStatus /\ [][NextStatus]_vars

(***************************************************************************)
(* SpecGate: cast, change and retract requests, one at a time, against an  *)
(* event with every stored start and end (each present or absent, in       *)
(* either order) and every creator, while the clock advances.              *)
(***************************************************************************)
NextGate ==
    \/ Tick
    \/ \E p \in Procs, u \in Users, event_id \in EventIds, option_id \in OptionIds :
            Quiet /\ cast_vote(p, u, event_id, option_id)
    \/ \E p \in Procs : castCheckStatus(p)
    \/ \E p \in Procs : castValidateOption(p)
    \/ \E p \in Procs : castValidateRaises(p)
    \/ \E p \in Procs : castLookup(p)
    \/ \E p \in Procs : castWrite(p)
    \/ \E p \in Procs, u \in Users, event_id \in EventIds :
            Quiet /\ delete_vote(p, u, event_id)
    \/ \E p \in Procs : retractCheckStatus(p)
    \/ \E p \in Procs : retractWrite(p)
    \/ \E p \in Procs : respond(p)

SpecGate == InitStatus /\ [][NextGate]_vars

(***************************************************************************)
(* Events.get_editable_fields, with the clock reading passed in.           *)
(***************************************************************************)
\* Mutant: the title of a Closed event stays editable.
get_editable_fields_ClosedTitle(ev, clock) ==
    LET status == compute_status(ev.start_time, ev.end_time, clock)
    IN  [title |-> TRUE,
         description |-> TRUE,
         start_time |-> (status = "Waiting"),
         end_time |-> (status \in {"Waiting", "Open"}),
         status |-> status]

get_editable_fields(ev, clock) ==
    LET status == compute_status(ev.start_time, ev.end_time, clock)
    IN  [title |-> (status # "Closed"),
         description |-> TRUE,
         start_time |-> (status = "Waiting"),
         end_time |-> (status \in {"Waiting", "Open"}),
         status |-> status]

\* get_editable_fields applied to a stored event at the current clock.
editableOf(event_id) ==
    /\ getOne(event_id) # NoEvent
    /\ shown' = [event_id |-> event_id,
                 event_status |-> compute_status(getOne(event_id).start_time,
                                                 getOne(event_id).end_time, now),
                 is_open |-> FALSE,
                 at |-> now,
                 editable |-> get_editable_fields(getOne(event_id), now)]
    /\ UNCHANGED << now, event, option, vote, lastEventId, lastOptionId, req,
                   password, password_reset_token >>

(***************************************************************************)
(* SpecEditable: get_editable_fields over every stored start and end and   *)
(* every clock reading.                                                    *)
(***************************************************************************)
NextEditable ==
    \/ Tick
    \/ \E event_id \in EventIds : editableOf(event_id)

SpecEditable == InitStatus /\ [][NextEditable]_vars

(***************************************************************************)
(* editEventPost.  Steps: require_login, Events.getOne and the permission  *)
(* check; then event.getEditableFields().  Events defines                  *)
(* get_editable_fields and no getEditableFields, so the call raises        *)
(* AttributeError and the request ends as a server error before the form   *)
(* is read: Events.editEvent and the candidate management that follow are  *)
(* never reached.                                                          *)
(***************************************************************************)
\* Mutant: every logged-in user may manage every event.
canManageEvent_Anyone(u, ev) == u \in Users

canManageEvent(u, ev) == is_admin(u) \/ ev.created_byFK = u

\* A posted pair of candidate_ids[] and candidates[]; NoId is an empty id.
NoId == 0
Pair(id, text) == [id |-> id, text |-> text]

\* The candidate lists posted with an edit: the stored options unchanged; a
\* rename, a creation and a removal; a duplicate ignoring case; one entry
\* left after trimming.
EditForms ==
    { << Pair(1, "Al"), Pair(2, "Bo") >>,
      << Pair(1, "Bo"), Pair(NoId, "Al") >>,
      << Pair(1, "Al"), Pair(NoId, "al") >>,
      << Pair(1, "Al"), Pair(NoId, "  ") >>,
      << Pair(1, "al"), Pair(1, "Bo") >>,
      << Pair(MaxOptions + 1, "al"), Pair(2, "Bo") >> }

editEventPost(p, u, event_id, candidates) ==
    /\ CanStart(p)
    /\ IF getOne(event_id) = NoEvent
       THEN req' = [req EXCEPT ![p] = Done("edit", "NotFound")]
       ELSE IF ~canManageEvent(u, getOne(event_id))
       THEN req' = [req EXCEPT ![p] = Done("edit", "Forbidden")]
       ELSE req' = [req EXCEPT ![p] =
                [Idle EXCEPT !.kind = "edit", !.pc = "fields", !.user = u,
                             !.event_id = event_id, !.event = getOne(event_id),
                             !.cands = candidates]]
    /\ UNCHANGED << now, event, option, vote, lastEventId, lastOptionId, shown,
                   password, password_reset_token >>

\* Mutant: the call succeeds and the handler goes on to remove the options
\* whose id was not posted.
getEditableFields_RemovesUnposted(p) ==
    /\ req[p].kind = "edit" /\ req[p].pc = "fields"
    /\ LET posted == { req[p].cands[i].id : i \in 1..Len(req[p].cands) }
           gone == { o \in option : /\ o.option_event_id = req[p].event_id
                                    /\ o.option_id \notin posted }
       IN  /\ option' = option \ gone
           /\ vote' = [k \in VoteKeys |->
                        IF \E o \in gone : o.option_id = k[2] THEN 0 ELSE vote[k]]
    /\ req' = [req EXCEPT ![p].pc = "done", ![p].result = "Updated",
                          ![p].user = 0, ![p].event = NoEvent]
    /\ UNCHANGED << now, event, lastEventId, lastOptionId, shown,
                   password, password_reset_token >>

\* Mutant: the call succeeds, Events.editEvent stores the row, and the
\* candidate list is then refused.
getEditableFields_StoresThenRefuses(p) ==
    /\ req[p].kind = "edit" /\ req[p].pc = "fields"
    /\ event' = (event \ {getOne(req[p].event_id)})
                    \cup {[getOne(req[p].event_id) EXCEPT !.description = ""]}
    /\ req' = [req EXCEPT ![p].pc = "done", ![p].result = "ValidationError",
                          ![p].user = 0, ![p].event = NoEvent]
    /\ UNCHANGED << now, option, vote, lastEventId, lastOptionId, shown,
                   password, password_reset_token >>

\* Mutant: the call succeeds and the handler starts on the candidates by
\* removing the options whose id was not posted, the creations still to come.
getEditableFields_RemovesFirst(p) ==
    /\ req[p].kind = "edit" /\ req[p].pc = "fields"
    /\ LET posted == { req[p].cands[i].id : i \in 1..Len(req[p].cands) }
           gone == { o \in option : /\ o.option_event_id = req[p].event_id
                                    /\ o.option_id \notin posted }
       IN  /\ option' = option \ gone
           /\ vote' = [k \in VoteKeys |->
                        IF \E o \in gone : o.option_id = k[2] THEN 0 ELSE vote[k]]
    /\ req' = [req EXCEPT ![p].pc = "candidates"]
    /\ UNCHANGED << now, event, lastEventId, lastOptionId, shown,
                   password, password_reset_token >>

\* Mutant: the call succeeds and the edit is stored with the end time of the
\* form left empty, whatever the status.
getEditableFields_StoresEmptyEnd(p) ==
    /\ req[p].kind = "edit" /\ req[p].pc = "fields"
    /\ event' = { IF e.event_id = req[p].event_id
                  THEN [e EXCEPT !.end_time = NoTime] ELSE e : e \in event }
    /\ req' = [req EXCEPT ![p].pc = "done", ![p].result = "Updated",
                          ![p].user = 0, ![p].event = NoEvent]
    /\ UNCHANGED << now, option, vote, lastEventId, lastOptionId, shown,
                   password, password_reset_token >>

\* editable = event.getEditableFields(): AttributeError, answered as a server
\* error; nothing has been written.
getEditableFields(p) ==
    /\ req[p].kind = "edit" /\ req[p].pc = "fields"
    /\ req' = [req EXCEPT ![p].pc = "done", ![p].result = "ServerError",
                          ![p].user = 0, ![p].event = NoEvent]
    /\ UNCHANGED << now, event, option, vote, lastEventId, lastOptionId, shown,
                   password, password_reset_token >>

(***************************************************************************)
(* SpecEdit: edit requests against an event with every stored start and    *)
(* end and every creator, one edit at a time, interleaved with a cast or   *)
(* change request for an option of the event and with the clock.           *)
(***************************************************************************)
NextEdit ==
    \/ Tick
    \/ \E p \in Procs, u \in Users, event_id \in EventIds :
         \E option_id \in getByEventId(event_id) :
            Quiet /\ cast_vote(p, u, event_id, option_id)
    \/ \E p \in Procs : castCheckStatus(p)
    \/ \E p \in Procs : castValidateOption(p)
    \/ \E p \in Procs : castValidateRaises(p)
    \/ \E p \in Procs : castLookup(p)
    \/ \E p \in Procs : castWrite(p)
    \/ \E p \in Procs : respond(p)
    \/ \E p \in Procs, u \in Users, event_id \in EventIds, candidates \in EditForms :
            /\ \A q \in Procs : req[q].kind # "edit"
            /\ editEventPost(p, u, event_id, candidates)
    \/ \E p \in Procs : getEditableFields(p)

SpecEdit == InitStatus /\ [][NextEdit]_vars

(***************************************************************************)
(* SpecCands: creation with every candidate list (title and times fixed),  *)
(* followed by edit requests, one request at a time, while the clock       *)
(* advances.                                                               *)
(***************************************************************************)
NextCands ==
    \/ Tick
    \/ \E p \in Procs :
         /\ Quiet /\ lastEventId < MaxEvents
         /\ \E candidate \in CandSeqs :
            createEventRoute(p, AdminId, "Title", "", 2, 3, candidate)
    \/ \E p \in Procs : createOption(p)
    \/ \E p \in Procs, u \in Users, event_id \in EventIds, candidates \in EditForms :
            Quiet /\ editEventPost(p, u, event_id, candidates)
    \/ \E p \in Procs : getEditableFields(p)
    \/ \E p \in Procs : respond(p)

SpecCands == Init /\ [][NextCands]_vars

(***************************************************************************)
(* The tally and the result of an event as requests compute them.         *)
(***************************************************************************)
tallyVotesForEvent(event_id) ==
    /\ \E rows \in TallyOrders(event_id) :
            shown' = [event_id |-> event_id, event_status |-> "None",
                      is_open |-> FALSE, at |-> now, rows |-> rows]
    /\ UNCHANGED << now, event, option, vote, lastEventId, lastOptionId, req,
                   password, password_reset_token >>

(***************************************************************************)
(* SpecTally: two events that are open from the first instant on, each     *)
(* with the options "Al" and "Bo" (inserted in either order); voters cast  *)
(* and change ballots one request at a time, and the tally of either event *)
(* is computed at any point in between.                                    *)
(***************************************************************************)
InitTally ==
    /\ now = 1
    /\ event = { [event_id |-> e, title |-> "Title", description |-> "Desc",
                  start_time |-> 1, end_time |-> NoTime,
                  created_byFK |-> AdminId] : e \in 1..2 }
    /\ option = {[option_id |-> 1, option_text |-> "Bo", option_event_id |-> 1],
                 [option_id |-> 2, option_text |-> "Al", option_event_id |-> 1],
                 [option_id |-> 3, option_text |-> "Al", option_event_id |-> 2],
                 [option_id |-> 4, option_text |-> "Bo", option_event_id |-> 2]}
    /\ vote = [k \in VoteKeys |-> 0]
    /\ lastEventId = 2
    /\ lastOptionId = 4
    /\ req = [p \in Procs |-> Idle]
    /\ shown = NoView
    /\ password = SeededPasswords
    /\ password_reset_token = {}

NextTally ==
    \/ \E p \in Procs, u \in Users, event_id \in EventIds :
            \E option_id \in getByEventId(event_id) :
                Quiet /\ cast_vote(p, u, event_id, option_id)
    \/ \E p \in Procs : castCheckStatus(p)
    \/ \E p \in Procs : castValidateOption(p)
    \/ \E p \in Procs : castValidateRaises(p)
    \/ \E p \in Procs : castLookup(p)
    \/ \E p \in Procs : castWrite(p)
    \/ \E p \in Procs : respond(p)
    \/ \E event_id \in EventIds : tallyVotesForEvent(event_id)

SpecTally == InitTally /\ [][NextTally]_vars

\* Result({'event_id': event_id}) and what is read from it.
Result(event_id) ==
    /\ \E tally \in TallyOrders(event_id) :
            LET rows == calculate(tally)
            IN  shown' = [event_id |-> event_id, event_status |-> "None",
                          is_open |-> FALSE, at |-> now,
                          result |-> [rows |-> rows,
                                      winners |-> getWinners(rows),
                                      winner_option_ids |-> getWinnerOptionIds(rows),
                                      total_votes |-> getTotalVotes(rows)]]
    /\ UNCHANGED << now, event, option, vote, lastEventId, lastOptionId, req,
                   password, password_reset_token >>

(***************************************************************************)
(* SpecResult: the two open events of InitTally; voters cast and change    *)
(* ballots, a form possibly submitted twice at a time, and the             *)
(* result of either event is computed between requests.                    *)
(***************************************************************************)
\* At most one request is in flight, a cast of user u in event event_id: a
\* ballot form submitted twice.
Resubmits(u, event_id) ==
    /\ Cardinality({ q \in Procs : req[q] # Idle }) <= 1
    /\ \A q \in Procs :
          \/ req[q] = Idle
          \/ /\ req[q].kind = "cast" /\ req[q].pc # "done"
             /\ req[q].user = u /\ req[q].event_id = event_id

NextResult ==
    \/ \E p \in Procs, u \in Users, event_id \in EventIds :
            \E option_id \in getByEventId(event_id) :
                Resubmits(u, event_id) /\ cast_vote(p, u, event_id, option_id)
    \/ \E p \in Procs : castCheckStatus(p)
    \/ \E p \in Procs : castValidateOption(p)
    \/ \E p \in Procs : castValidateRaises(p)
    \/ \E p \in Procs : castLookup(p)
    \/ \E p \in Procs : castWrite(p)
    \/ \E p \in Procs : respond(p)
    \/ \E event_id \in EventIds : Quiet /\ Result(event_id)

SpecResult == InitTally /\ [][NextResult]_vars

(***************************************************************************)
(* deleteEvent: the permission check, then Option.deleteByEventId and      *)
(* Events.deleteEvent, two statements committed one after the other.  The  *)
(* foreign keys cascade: votes go with their option, options with their    *)
(* event.                                                                  *)
(***************************************************************************)
\* The vote table once the option rows in gone are deleted (ON DELETE
\* CASCADE of vote.vote_option_id).
CascadeVotes(gone) ==
    [k \in VoteKeys |->
        IF \E o \in gone : o.option_id = k[2] THEN 0 ELSE vote[k]]

deleteEvent(p, u, event_id) ==
    /\ CanStart(p)
    /\ IF getOne(event_id) = NoEvent
       THEN req' = [req EXCEPT ![p] = Done("delete", "NotFound")]
       ELSE IF ~canManageEvent(u, getOne(event_id))
       THEN req' = [req EXCEPT ![p] = Done("delete", "Forbidden")]
       ELSE req' = [req EXCEPT ![p] =
                [Idle EXCEPT !.kind = "delete", !.pc = "options", !.user = u,
                             !.event_id = event_id, !.event = getOne(event_id)]]
    /\ UNCHANGED << now, event, option, vote, lastEventId, lastOptionId, shown,
                   password, password_reset_token >>

\* 5a. Option.deleteByEventId
deleteByEventId(p) ==
    /\ req[p].kind = "delete" /\ req[p].pc = "options"
    /\ LET gone == { o \in option : o.option_event_id = req[p].event_id }
       IN  /\ option' = option \ gone
           /\ vote' = CascadeVotes(gone)
    /\ req' = [req EXCEPT ![p].pc = "event"]
    /\ UNCHANGED << now, event, lastEventId, lastOptionId, shown,
                   password, password_reset_token >>

\* 5b. Events.deleteEvent and the flash message
deleteEventRow(p) ==
    /\ req[p].kind = "delete" /\ req[p].pc = "event"
    /\ LET gone == { o \in option : o.option_event_id = req[p].event_id }
       IN  /\ event' = { e \in event : e.event_id # req[p].event_id }
           /\ option' = option \ gone
           /\ vote' = CascadeVotes(gone)
    /\ req' = [req EXCEPT ![p].pc = "done", ![p].result = "Deleted",
                          ![p].user = 0, ![p].event = NoEvent]
    /\ UNCHANGED << now, lastEventId, lastOptionId, shown,
                   password, password_reset_token >>

(***************************************************************************)
(* SpecManage: two events that are open from the first instant on, each    *)
(* created by any user; cast, edit and delete requests of every user, one  *)
(* request at a time.                                                      *)
(***************************************************************************)
InitManage ==
    /\ now = 1
    /\ \E c \in [1..2 -> Users] :
            event = { [event_id |-> e, title |-> "Title", description |-> "Desc",
                       start_time |-> 1, end_time |-> NoTime,
                       created_byFK |-> c[e]] : e \in 1..2 }
    /\ option = {[option_id |-> 1, option_text |-> "Al", option_event_id |-> 1],
                 [option_id |-> 2, option_text |-> "Bo", option_event_id |-> 1],
                 [option_id |-> 3, option_text |-> "Al", option_event_id |-> 2],
                 [option_id |-> 4, option_text |-> "Bo", option_event_id |-> 2]}
    /\ vote = [k \in VoteKeys |-> 0]
    /\ lastEventId = 2
    /\ lastOptionId = 4
    /\ req = [p \in Procs |-> Idle]
    /\ shown = NoView
    /\ password = SeededPasswords
    /\ password_reset_token = {}

NextManage ==
    \/ \E p \in Procs, u \in Users, event_id \in EventIds :
            \E option_id \in getByEventId(event_id) :
                Quiet /\ cast_vote(p, u, event_id, option_id)
    \/ \E p \in Procs : castCheckStatus(p)
    \/ \E p \in Procs : castValidateOption(p)
    \/ \E p \in Procs : castValidateRaises(p)
    \/ \E p \in Procs : castLookup(p)
    \/ \E p \in Procs : castWrite(p)
    \/ \E p \in Procs, u \in Users, event_id \in EventIds, candidates \in EditForms :
            Quiet /\ editEventPost(p, u, event_id, candidates)
    \/ \E p \in Procs : getEditableFields(p)
    \/ \E p \in Procs, u \in Users, event_id \in EventIds :
            Quiet /\ deleteEvent(p, u, event_id)
    \/ \E p \in Procs : deleteByEventId(p)
    \/ \E p \in Procs : deleteEventRow(p)
    \/ \E p \in Procs : respond(p)

SpecManage == InitManage /\ [][NextManage]_vars

(***************************************************************************)
(* Password reset.  reset_password_submit validates the form, verifies the *)
(* token, then runs User.updatePassword and User.consumePasswordResetToken *)
(* as two further statements.  A request keeps the submitted token and     *)
(* password in cands and the user of the token in user.                    *)
(***************************************************************************)
\* validate_password, on the passwords of ResetForms
validate_password(pw) == pw # "weak"

ResetForms ==
    { [token |-> "tok", new_password |-> "New#Pass1", confirm_password |-> "New#Pass1"],
      [token |-> "tok", new_password |-> "New#Pass2", confirm_password |-> "New#Pass2"],
      [token |-> "tok", new_password |-> "Old#Pass1", confirm_password |-> "Old#Pass1"],
      [token |-> "tok", new_password |-> "New#Pass1", confirm_password |-> "New#Pass2"],
      [token |-> "tok", new_password |-> "weak", confirm_password |-> "weak"],
      [token |-> "bad", new_password |-> "New#Pass1", confirm_password |-> "New#Pass1"],
      [token |-> "", new_password |-> "New#Pass1", confirm_password |-> "New#Pass1"] }

\* User.verifyPasswordResetToken: the rows with this hash that are unused and
\* not expired, joined to the user's current password.
verifyPasswordResetToken(raw_token) ==
    { t \in password_reset_token :
        /\ t.token_hash = sha256(raw_token)
        /\ t.used_at = NoTime
        /\ t.expires_at > now }

reset_password_submit(p, form) ==
    /\ CanStart(p)
    /\ IF form.token = "" \/ form.new_password = "" \/ form.confirm_password = ""
       THEN req' = [req EXCEPT ![p] = Done("reset", "MissingField")]
       ELSE IF form.new_password # form.confirm_password
       THEN req' = [req EXCEPT ![p] = Done("reset", "Mismatch")]
       ELSE IF ~validate_password(form.new_password)
       THEN req' = [req EXCEPT ![p] = Done("reset", "WeakPassword")]
       ELSE IF verifyPasswordResetToken(form.token) = {}
       THEN req' = [req EXCEPT ![p] = Done("reset", "InvalidToken")]
       ELSE LET info == CHOOSE t \in verifyPasswordResetToken(form.token) : TRUE
            IN  IF check_password_hash(password[info.user_id], form.new_password)
                THEN req' = [req EXCEPT ![p] = Done("reset", "SamePassword")]
                ELSE req' = [req EXCEPT ![p] =
                        [Idle EXCEPT !.kind = "reset", !.pc = "update",
                                     !.user = info.user_id,
                                     !.cands = << form.token, form.new_password >>]]
    /\ UNCHANGED << now, event, option, vote, lastEventId, lastOptionId, shown,
                   password, password_reset_token >>

\* 7. User.updatePassword
updatePassword(p) ==
    /\ req[p].kind = "reset" /\ req[p].pc = "update"
    /\ password' = [password EXCEPT
                        ![req[p].user] = generate_password_hash(req[p].cands[2])]
    /\ req' = [req EXCEPT ![p].pc = "consume"]
    /\ UNCHANGED << now, event, option, vote, lastEventId, lastOptionId, shown,
                   password_reset_token >>

\* 8. User.consumePasswordResetToken and the success message
consumePasswordResetToken(p) ==
    /\ req[p].kind = "reset" /\ req[p].pc = "consume"
    /\ password_reset_token' =
            { IF t.token_hash = sha256(req[p].cands[1]) /\ t.used_at = NoTime
              THEN [t EXCEPT !.used_at = now] ELSE t : t \in password_reset_token }
    /\ req' = [req EXCEPT ![p] = [Done("reset", "Updated") EXCEPT
                                     !.cands = req[p].cands]]
    /\ UNCHANGED << now, event, option, vote, lastEventId, lastOptionId, shown,
                   password >>

(***************************************************************************)
(* SpecReset: one reset token, issued to any user with any expiry;         *)
(* reset submissions interleave with each other and with the clock.        *)
(***************************************************************************)
InitReset ==
    /\ now = 1
    /\ event = {}
    /\ option = {}
    /\ vote = [k \in VoteKeys |-> 0]
    /\ lastEventId = 0
    /\ lastOptionId = 0
    /\ req = [p \in Procs |-> Idle]
    /\ shown = NoView
    /\ password = SeededPasswords
    /\ \E u \in Users, x \in Instants :
            password_reset_token =
                {[token_hash |-> sha256("tok"), user_id |-> u,
                  expires_at |-> x, used_at |-> NoTime]}

NextReset ==
    \/ Tick
    \/ \E p \in Procs, form \in ResetForms : reset_password_submit(p, form)
    \/ \E p \in Procs : updatePassword(p)
    \/ \E p \in Procs : consumePasswordResetToken(p)
    \/ \E p \in Procs : respond(p)

SpecReset == InitReset /\ [][NextReset]_vars

(***************************************************************************)
(* Vote.getStatsForUser: the three counting queries and the participation  *)
(* rate, in tenths of a percent.                                           *)
(***************************************************************************)
\* Query 1: COUNT(*) of the vote rows of the user
total_votes(user_id) == SumOver(vote, { k \in VoteKeys : k[1] = user_id })

\* Query 2: COUNT(DISTINCT o.option_event_id) over the user's votes
events_participated(user_id) ==
    Cardinality({ o.option_event_id :
                    o \in { x \in option : vote[<< user_id, x.option_id >>] > 0 } })

\* Query 3: the events with end_time < NOW() not created by the user (a NULL
\* end_time does not compare)
total_available(user_id) ==
    Cardinality({ e \in event : /\ e.end_time # NoTime
                                /\ e.end_time < now
                                /\ e.created_byFK # user_id })

participation_rate(user_id) ==
    IF total_available(user_id) > 0
    THEN RoundPercent(events_participated(user_id), total_available(user_id))
    ELSE 0

getStatsForUser(user_id) ==
    /\ shown' = [event_id |-> 0, event_status |-> "None", is_open |-> FALSE,
                 at |-> now,
                 stats |-> [user_id |-> user_id,
                            total_votes |-> total_votes(user_id),
                            events_participated |-> events_participated(user_id),
                            total_available |-> total_available(user_id),
                            participation_rate |-> participation_rate(user_id)]]
    /\ UNCHANGED << now, event, option, vote, lastEventId, lastOptionId, req,
                   password, password_reset_token >>

(***************************************************************************)
(* SpecStats: two events starting at the first instant, the first with any *)
(* stored end, the second without an end and created by any user; voters   *)
(* cast and change ballots one request at a time while the clock advances, *)
(* and the statistics of any user are computed between requests.           *)
(***************************************************************************)
InitStats ==
    /\ now = 1
    /\ \E c \in Users, x \in StoredTimes :
            event = { [event_id |-> 1, title |-> "Title", description |-> "Desc",
                       start_time |-> 1, end_time |-> x, created_byFK |-> AdminId],
                      [event_id |-> 2, title |-> "Title", description |-> "Desc",
                       start_time |-> 1, end_time |-> NoTime, created_byFK |-> c] }
    /\ option = {[option_id |-> 1, option_text |-> "Al", option_event_id |-> 1],
                 [option_id |-> 2, option_text |-> "Bo", option_event_id |-> 1],
                 [option_id |-> 3, option_text |-> "Al", option_event_id |-> 2],
                 [option_id |-> 4, option_text |-> "Bo", option_event_id |-> 2]}
    /\ vote = [k \in VoteKeys |-> 0]
    /\ lastEventId = 2
    /\ lastOptionId = 4
    /\ req = [p \in Procs |-> Idle]
    /\ shown = NoView
    /\ password = SeededPasswords
    /\ password_reset_token = {}

NextStats ==
    \/ Tick
    \/ \E p \in Procs, u \in Users, event_id \in EventIds :
            \E option_id \in getByEventId(event_id) :
                Quiet /\ cast_vote(p, u, event_id, option_id)
    \/ \E p \in Procs : castCheckStatus(p)
    \/ \E p \in Procs : castValidateOption(p)
    \/ \E p \in Procs : castValidateRaises(p)
    \/ \E p \in Procs : castLookup(p)
    \/ \E p \in Procs : castWrite(p)
    \/ \E p \in Procs : respond(p)
    \/ \E u \in Users : Quiet /\ getStatsForUser(u)

SpecStats == InitStats /\ [][NextStats]_vars

TypeOK ==
    /\ now \in Instants
    /\ lastEventId \in 0..MaxEvents
    /\ \A k \in VoteKeys : vote[k] \in 0..MaxVotes

(***************************************************************************)
(* Helpers of the properties.                                              *)
(***************************************************************************)
\* The event an option belongs to (NoEvent when the option or event is gone).
EventOfOption(option_id) ==
    IF OptionExists(option_id)
    THEN getOne((CHOOSE o \in option : o.option_id = option_id).option_event_id)
    ELSE NoEvent

StatusNow(ev) == compute_status(ev.start_time, ev.end_time, now)

\* p takes the write step of a cast or of a retract in this transition.
CastWrites(p) ==
    req[p].kind = "cast" /\ req[p].pc = "write" /\ req'[p].pc = "done"

RetractWrites(p) ==
    req[p].kind = "retract" /\ req[p].pc = "write" /\ req'[p].pc = "done"

\* p takes the status check of a cast or retract in this transition.
ChecksStatus(p) ==
    req[p].kind \in {"cast", "retract"} /\ req[p].pc = "status" /\ req'[p] # req[p]

(***************************************************************************)
(* C1: in every reachable state, under any interleaving of cast, change    *)
(* and retract requests, the store holds at most one ballot per (user,     *)
(* event) pair.                                                            *)
(***************************************************************************)
C1_OneBallotPerUserEvent ==
    \A u \in Users : \A e \in event : BallotCount(u, e.event_id) <= 1

(***************************************************************************)
(* C2: run without interference, a successful cast or change by user u on  *)
(* Open event e with option o leaves exactly one ballot for (u, e), and    *)
(* that ballot's option is o.                                              *)
(***************************************************************************)
\* The number of vote rows of the user on options of the event, in the
\* given tables.
BallotCountIn(votes, options, user_id, event_id) ==
    SumOver(votes, { k \in VoteKeys :
                        /\ k[1] = user_id
                        /\ \E o \in options : o.option_id = k[2] /\ o.option_event_id = event_id })

C2_CastLeavesOneBallotOnOption ==
    [][\A p \in Procs :
          (CastWrites(p) /\ StatusNow(getOne(req[p].event_id)) = "Open") =>
              /\ BallotCountIn(vote', option', req[p].user, req[p].event_id) = 1
              /\ vote'[<< req[p].user, req[p].option_id >>] = 1
              /\ \E o \in option' : /\ o.option_id = req[p].option_id
                                     /\ o.option_event_id = req[p].event_id
      ]_vars

(***************************************************************************)
(* C3: every insert, update or delete of a ballot of event e happens at an *)
(* instant when the status of e is Open (so the ballots of a Closed event  *)
(* never change).                                                          *)
(***************************************************************************)
C3_BallotsChangeOnlyWhileOpen ==
    [][\A k \in VoteKeys :
          vote'[k] # vote[k] => StatusNow(EventOfOption(k[2])) = "Open"
      ]_vars

(***************************************************************************)
(* C4: a cast or retract request that finds the status of the event to be  *)
(* Waiting, Closed or Unknown is rejected as EventNotOpen and changes no   *)
(* ballot; the request passes the status check exactly when                *)
(* Vote.isEditable holds of the event, which is exactly when the computed  *)
(* status is Open.                                                         *)
(***************************************************************************)
C4_NotOpenRejected ==
    [][\A p \in Procs :
          (ChecksStatus(p) /\ (req[p].kind = "retract" => ~isCreatedBy(req[p].event, req[p].user))) =>
              /\ StatusNow(req[p].event) \in {"Waiting", "Closed", "Unknown"} =>
                    /\ req'[p] = Done(req[p].kind, "EventNotOpen")
                    /\ vote' = vote
              /\ (req'[p].result = "EventNotOpen") <=> ~isEditable(req[p].event, now)
              /\ isEditable(req[p].event, now) <=> (StatusNow(req[p].event) = "Open")
      ]_vars

C4_Witness ==
    \E p \in Procs : req[p] = Done("cast", "EventNotOpen")

(***************************************************************************)
(* C5: in every reachable state no ballot belongs to an administrator, and *)
(* no ballot on an option of event e belongs to the creator of e.          *)
(***************************************************************************)
C5_NoAdminOrCreatorBallot ==
    \A k \in VoteKeys :
        vote[k] > 0 =>
            /\ ~is_admin(k[1])
            /\ ~isCreatedBy(EventOfOption(k[2]), k[1])

(***************************************************************************)
(* C6: every ballot written by a cast or change request for event e        *)
(* references an option that belongs to e at the time of the write.        *)
(***************************************************************************)
C6_WrittenOptionBelongsToEvent ==
    [][\A p \in Procs :
          CastWrites(p) =>
              \A k \in VoteKeys :
                  vote'[k] > vote[k] => k[2] \in getByEventId(req[p].event_id)
      ]_vars

Backward(before, after) ==
    \/ before = "Open" /\ after = "Waiting"
    \/ before = "Closed" /\ after \in {"Open", "Waiting"}

C8_StatusNeverBackward ==
    [][\A e1 \in event : \A e2 \in event' :
          (e1.event_id = e2.event_id /\ e1.start_time = e2.start_time
                                     /\ e1.end_time = e2.end_time) =>
              ~Backward(compute_status(e1.start_time, e1.end_time, now),
                        compute_status(e2.start_time, e2.end_time, now'))
      ]_vars

C8_Witness ==
    /\ shown # NoView
    /\ shown.event_status = "Open"
    /\ StatusNow(getOne(shown.event_id)) = "Closed"

(***************************************************************************)
(* C9: every stored event that has both a start_time and an end_time has   *)
(* end_time strictly after start_time.                                     *)
(***************************************************************************)
C9_EndAfterStart ==
    \A e \in event :
        (e.start_time # NoTime /\ e.end_time # NoTime) => e.end_time > e.start_time

(***************************************************************************)
(* C10: every event stored by createEventRoute has both a start time and   *)
(* an end time, and its start time is not earlier than the clock at        *)
(* creation.                                                               *)
(***************************************************************************)
C10_CreatedWithFutureTimes ==
    [][\A e \in event' \ event :
          /\ e.start_time # NoTime
          /\ e.end_time # NoTime
          /\ e.start_time >= now
      ]_vars

(***************************************************************************)
(* C11: get_editable_fields returns, for every event, the policy table of  *)
(* its computed status: Waiting -> title, description, start_time and      *)
(* end_time editable; Open -> title, description and end_time editable,    *)
(* start_time not; Closed -> only description editable; Unknown -> title   *)
(* and description editable, start_time and end_time not.  Description is  *)
(* editable in every status; start_time and end_time never when Closed.    *)
(***************************************************************************)
PolicyTable(status) ==
    CASE status = "Waiting" ->
            [title |-> TRUE, description |-> TRUE, start_time |-> TRUE, end_time |-> TRUE]
      [] status = "Open" ->
            [title |-> TRUE, description |-> TRUE, start_time |-> FALSE, end_time |-> TRUE]
      [] status = "Closed" ->
            [title |-> FALSE, description |-> TRUE, start_time |-> FALSE, end_time |-> FALSE]
      [] OTHER ->
            [title |-> TRUE, description |-> TRUE, start_time |-> FALSE, end_time |-> FALSE]

EditHandled(p) ==
    req[p].kind = "edit" /\ req[p].pc = "fields" /\ req'[p].pc = "done"

\* The row of the event in the given table (NoEvent when it is gone).
EventIn(events, event_id) ==
    IF \E e \in events : e.event_id = event_id
    THEN CHOOSE e \in events : e.event_id = event_id
    ELSE NoEvent

(***************************************************************************)
(* C12: an edit request handled while the event is Closed is carried out   *)
(* without an error and leaves the stored title, start_time and end_time   *)
(* equal to their previous values (only the description can change).       *)
(***************************************************************************)
C12_ClosedEditKeepsTitleAndTimes ==
    [][\A p \in Procs :
          (EditHandled(p) /\ StatusNow(getOne(req[p].event_id)) = "Closed") =>
              LET before == EventIn(event, req[p].event_id)
                  after == EventIn(event', req[p].event_id)
              IN  /\ req'[p].result = "Updated"
                  /\ after.title = before.title
                  /\ after.start_time = before.start_time
                  /\ after.end_time = before.end_time
      ]_vars

(***************************************************************************)
(* C13: an edit request handled while the event is Open never changes      *)
(* start_time; it is accepted only if the stored end becomes strictly      *)
(* later than the original start and than now; otherwise it is rejected    *)
(* with a validation error and the stored event is unchanged.              *)
(***************************************************************************)
C13_OpenEditOnlyLaterEnd ==
    [][\A p \in Procs :
          (EditHandled(p) /\ StatusNow(getOne(req[p].event_id)) = "Open") =>
              LET before == EventIn(event, req[p].event_id)
                  after == EventIn(event', req[p].event_id)
              IN  /\ after.start_time = before.start_time
                  /\ req'[p].result = "Updated" =>
                        /\ after.end_time # NoTime
                        /\ after.end_time > before.start_time
                        /\ after.end_time > now
                  /\ req'[p].result # "Updated" =>
                        /\ req'[p].result = "ValidationError"
                        /\ event' = event
      ]_vars

(***************************************************************************)
(* C14: whenever the status of an event is Open, once its creation has     *)
(* completed and after any sequence of edit requests, the event has at     *)
(* least 2 options and its option texts are pairwise distinct ignoring     *)
(* case.                                                                   *)
(***************************************************************************)
CreationInFlight(event_id) ==
    \E p \in Procs : /\ req[p].kind = "create" /\ req[p].pc = "options"
                     /\ req[p].event_id = event_id

OptionsOf(event_id) == { o \in option : o.option_event_id = event_id }

TextsOf(pairs) == [i \in 1..Len(pairs) |-> pairs[i].text]

TooFewOrRepeated(cs) ==
    LET kept == SeqFilterStrip(cs)
    IN  \/ Len(kept) < 2
        \/ \E i, j \in 1..Len(kept) : i < j /\ Lower(kept[i]) = Lower(kept[j])

PairsOf(p) == { req[p].cands[i] : i \in 1..Len(req[p].cands) }

C16_EditReconcilesOptions ==
    [][\A p \in Procs :
          (/\ EditHandled(p)
           /\ StatusNow(getOne(req[p].event_id)) = "Waiting"
           /\ ~TooFewOrRepeated(TextsOf(req[p].cands))) =>
              LET E == OptionsOf(req[p].event_id)
                  S == PairsOf(p)
                  ids == { o.option_id : o \in E }
                  after == { o \in option' : o.option_event_id = req[p].event_id }
              IN  /\ \A o \in E : \A pr \in S :
                        pr.id = o.option_id =>
                            [o EXCEPT !.option_text = pr.text] \in after
                  /\ \A o \in E :
                        (\A pr \in S : pr.id # o.option_id) =>
                            (\A x \in after : x.option_id # o.option_id)
                  /\ \A pr \in S :
                        pr.id \notin ids =>
                            \E x \in after : /\ x.option_id \notin ids
                                              /\ x.option_text = pr.text
                  /\ Cardinality(after) = Cardinality(S)
                  /\ (\A o \in E : Pair(o.option_id, o.option_text) \in S)
                        /\ Cardinality(S) = Cardinality(E) => option' = option
      ]_vars

(***************************************************************************)
(* C17: with the clock advancing between any two steps, an edit request    *)
(* creates, renames or deletes options only at instants when the status of *)
(* the event is Waiting; no option of an Open or Closed event is changed   *)
(* by an edit, so no option holding a ballot is removed or renamed and no  *)
(* ballot is cascade-deleted by an edit.                                   *)
(***************************************************************************)
EditSteps(p) == req[p].kind = "edit" /\ req'[p] # req[p]

BallotsOn(option_id) == SumOver(vote, { k \in VoteKeys : k[2] = option_id })

ErrorResults == {"ValidationError", "ServerError", "NotFound", "Forbidden"}

EditInProgress(event_id) ==
    \E p \in Procs :
        /\ req[p].kind = "edit" /\ req[p].pc # "done"
        /\ req[p].event_id = event_id
        /\ ~TooFewOrRepeated(TextsOf(req[p].cands))

ReadsOptions(q) ==
    req[q].kind = "cast" /\ req[q].pc = "validate" /\ req'[q] # req[q]

TextBefore(a, b) ==
    \/ Lower(a) = "al" /\ Lower(b) = "Bo"
    \/ Lower(a) = Lower(b)

TallyIsRight(event_id, rows) ==
    LET n == Len(rows) IN
    /\ \A o \in option :
          o.option_event_id = event_id =>
              Cardinality({ i \in 1..n : rows[i].option_id = o.option_id }) = 1
    /\ \A i \in 1..n :
          /\ [option_id |-> rows[i].option_id,
              option_text |-> rows[i].option_text,
              option_event_id |-> event_id] \in option
          /\ rows[i].votes = BallotsOn(rows[i].option_id)
    /\ \A i, j \in 1..n :
          i < j =>
              \/ rows[i].votes > rows[j].votes
              \/ /\ rows[i].votes = rows[j].votes
                 /\ TextBefore(rows[i].option_text, rows[j].option_text)

C20_TallyRowsCountsOrder ==
    [][\A event_id \in EventIds :
          tallyVotesForEvent(event_id) =>
              /\ TallyIsRight(event_id, shown'.rows)
              /\ vote' = vote /\ option' = option
              /\ \A other \in TallyOrders(event_id) : other = shown'.rows
      ]_vars

\* The tally on show is that of event 1 with the voted option "Bo" ahead of
\* the option "Al" that has no ballot, while event 2 holds a ballot too.
C20_Witness ==
    /\ shown.event_id = 1
    /\ "rows" \in DOMAIN shown
    /\ Len(shown.rows) = 2
    /\ shown.rows[1].option_text = "Bo" /\ shown.rows[1].votes = 1
    /\ shown.rows[2].option_text = "Al" /\ shown.rows[2].votes = 0
    /\ BallotsOn(1) = 1 /\ BallotsOn(2) = 0
    /\ BallotsOn(3) + BallotsOn(4) > 0

(***************************************************************************)
(* C21: getWinners returns exactly the rows whose votes equal the maximum  *)
(* votes over the rows of the event when that maximum is greater than 0,   *)
(* all of them in a tie, and no winner when the event has no rows or every *)
(* option has 0 votes.                                                     *)
(***************************************************************************)
RowSet(rows) == { rows[i] : i \in 1..Len(rows) }

MaxVotesOf(rows) ==
    IF rows = << >> THEN 0
    ELSE CHOOSE m \in { r.votes : r \in RowSet(rows) } :
            \A r \in RowSet(rows) : r.votes <= m

ResultShown == "result" \in DOMAIN shown

Distance(a, b) == IF a >= b THEN a - b ELSE b - a

C22_PercentageOfEventTotal ==
    ResultShown =>
        LET rows == shown.result.rows
            total == SumOver([i \in 1..Len(rows) |-> rows[i].votes], 1..Len(rows))
        IN  /\ shown.result.total_votes = total
            /\ \A i \in 1..Len(rows) :
                  IF total = 0 THEN rows[i].percentage = 0
                  ELSE 2 * Distance(rows[i].percentage * total,
                                    rows[i].votes * 1000) <= total
            /\ (Len(rows) = 2 /\ rows[1].votes = 1 /\ rows[2].votes = 0) =>
                  (rows[1].percentage = 1000 /\ rows[2].percentage = 0)

\* Votes {1, 0} in the event on show, and a ballot in the other event too.
C22_Witness ==
    /\ ResultShown
    /\ Len(shown.result.rows) = 2
    /\ shown.result.rows[1].votes = 1 /\ shown.result.rows[1].percentage = 1000
    /\ shown.result.rows[2].votes = 0 /\ shown.result.rows[2].percentage = 0
    /\ TotalVotes = 2

(***************************************************************************)
(* C23: a retract by a voter who did not create the event, on an Open      *)
(* event, deletes the ballot of the voter for that event when one exists   *)
(* and reports Deleted, after which the lookup for (user, event) finds     *)
(* none and all other ballots are unchanged; when the voter has no ballot  *)
(* for the event it reports a failure, not success, and changes nothing.   *)
(***************************************************************************)
RetractAnswered(p) ==
    /\ req[p].kind = "retract" /\ req[p].pc = "write"
    /\ req'[p].pc = "done"
    /\ StatusNow(getOne(req[p].event_id)) = "Open"

C23_RetractDeletesOrReportsNotFound ==
    [][\A p \in Procs :
          RetractAnswered(p) =>
              LET mine == { k \in VoteKeys :
                              /\ k[1] = req[p].user
                              /\ k[2] \in getByEventId(req[p].event_id) }
              IN  IF \E k \in mine : vote[k] > 0
                  THEN /\ req'[p].result = "Deleted"
                       /\ \A k \in mine : vote'[k] = 0
                       /\ \A k \in VoteKeys \ mine : vote'[k] = vote[k]
                  ELSE /\ req'[p].result # "Deleted"
                       /\ vote' = vote
      ]_vars

(***************************************************************************)
(* C24: deleting an event removes the event, all of its options and all    *)
(* ballots on those options together, and leaves the events, options and   *)
(* ballots of other events unchanged: there is no state in which an option *)
(* or ballot of the deleted event remains, nor one in which the event      *)
(* still exists while options or ballots of it were removed by the         *)
(* request.                                                                *)
(***************************************************************************)
DeleteSteps(p) == req[p].kind = "delete" /\ req'[p] # req[p] /\ req[p].pc # "done"

C24_DeleteRemovesEventOptionsBallotsTogether ==
    [][\A p \in Procs :
          DeleteSteps(p) =>
              LET e == req[p].event_id
                  mine == { o \in option : o.option_event_id = e }
              IN  /\ (option' # option \/ vote' # vote \/ event' # event) =>
                        /\ \A ev \in event' : ev.event_id # e
                        /\ \A o \in option' : o.option_event_id # e
                  /\ event \ event' \subseteq { getOne(e) }
                  /\ option \ option' \subseteq mine
                  /\ \A k \in VoteKeys :
                        (\A o \in mine : o.option_id # k[2]) => vote'[k] = vote[k]
                  /\ event' \subseteq event /\ option' \subseteq option
      ]_vars

(***************************************************************************)
(* C25: an edit or delete request for event e by a user who is neither the *)
(* creator of e nor an administrator is rejected and changes no event,     *)
(* option or ballot row; only the creator or an administrator ever causes  *)
(* a change to the title, description, times or options of e.              *)
(***************************************************************************)
MayManage(u, event_id) ==
    u = AdminId \/ getOne(event_id).created_byFK = u

ManageKinds == {"edit", "delete"}

C25_OnlyCreatorOrAdminManages ==
    [][/\ \A p \in Procs, u \in Users, event_id \in EventIds :
            ( /\ getOne(event_id) # NoEvent
              /\ ~MayManage(u, event_id)
              /\ \/ deleteEvent(p, u, event_id)
                 \/ \E candidates \in EditForms :
                        editEventPost(p, u, event_id, candidates) )
            => /\ req'[p].pc = "done" /\ req'[p].result = "Forbidden"
               /\ event' = event /\ option' = option /\ vote' = vote
       /\ \A p \in Procs :
            ( /\ req[p].kind \in ManageKinds /\ req'[p] # req[p]
              /\ (event' # event \/ option' # option \/ vote' # vote) )
            => MayManage(req[p].user, req[p].event_id)
      ]_vars

\* A voter who did not create event 1 has been refused, and the event, its
\* options and a ballot on it are in place.
C25_Witness ==
    /\ \E p \in Procs :
          req[p].kind \in ManageKinds /\ req[p].result = "Forbidden"
    /\ getOne(1) # NoEvent /\ getOne(1).created_byFK = AdminId
    /\ getByEventId(1) = {1, 2}
    /\ BallotsOn(1) + BallotsOn(2) > 0

(***************************************************************************)
(* C26: the single-event view produces tallies, winner ids and a vote      *)
(* total only when the computed status of the event is Closed; while the   *)
(* status is Waiting, Open or Unknown it produces empty tallies, no        *)
(* winners and a total of 0.                                               *)
(***************************************************************************)
C26_ResultsOnlyWhenClosed ==
    ("tallies" \in DOMAIN shown /\ shown.event_status # "Closed") =>
        /\ shown.tallies = << >>
        /\ shown.winner_option_ids = << >>
        /\ shown.total_votes = 0

HasUpdatedWith(q, raw_token) ==
    /\ req[q].kind = "reset"
    /\ req[q].cands # << >>
    /\ req[q].cands[1] = raw_token
    /\ req[q].pc = "consume" \/ req[q].result = "Updated"

ConsumedOrExpired(raw_token) ==
    \A t \in password_reset_token :
        t.token_hash = [sha256 |-> raw_token] =>
            (t.used_at # NoTime \/ t.expires_at <= now)

C29_TokenChangesPasswordOnce ==
    [][\A p \in Procs :
          /\ (req[p].kind = "reset" /\ req[p].pc = "update" /\ req'[p] # req[p]) =>
                /\ \A t \in password_reset_token :
                      t.token_hash = [sha256 |-> req[p].cands[1]] =>
                          t.used_at = NoTime
                /\ \A q \in Procs \ {p} : ~HasUpdatedWith(q, req[p].cands[1])
          /\ \A form \in ResetForms :
                (reset_password_submit(p, form) /\ ConsumedOrExpired(form.token)) =>
                    req'[p].pc = "done" /\ req'[p].result # "Updated"
      ]_vars

(***************************************************************************)
(* C30: getStatsForUser returns a participation_rate between 0.0 and 100.0 *)
(* in every reachable state: the number of distinct events the user holds  *)
(* a ballot in never exceeds the number of events it is divided by (events *)
(* whose end has passed and that the user did not create), and the rate is *)
(* 0.0 when that number is 0.  Rates are in tenths of a percent.           *)
(***************************************************************************)
C30_ParticipationRateWithinBounds ==
    "stats" \in DOMAIN shown =>
        /\ shown.stats.participation_rate >= 0
        /\ shown.stats.participation_rate <= 1000
        /\ shown.stats.total_available > 0 =>
                shown.stats.events_participated <= shown.stats.total_available
        /\ shown.stats.total_available = 0 => shown.stats.participation_rate = 0

====
